---- MODULE Spec2Model ----
(***************************************************************************)
(* Model of SimilarityDetector.find_similar_issues                         *)
(* (src/similarity_detector.py): the pairwise similarity matrix and the    *)
(* three tiered grouping passes (High, Medium, Low).                       *)
(*                                                                         *)
(* Scores are floats in [0,1] in the source; here they are integers in     *)
(* hundredths (0.8 is 80).  An average is kept as the exact fraction       *)
(* num/den that np.mean computes (sum of the list over its length).        *)
(* Indices are 0-based as in the source; issues[idx] of the source is      *)
(* issues[idx + 1] of the TLA+ sequence.                                   *)
(***************************************************************************)
EXTENDS Integers, Sequences, FiniteSets, TLC

\* ---- bounds of the model ------------------------------------------------
MaxIssues == 4
MaxSimilarPairs == 3

\* ---- program constants (SimilarityDetector.__init__) ---------------------
high_threshold == 80
medium_threshold == 50
low_threshold == 30

\* Scores a pair of texts can get: at least one value in every tier range,
\* each tier's lower bound exactly, and one below every tier.
UnrelatedScore == low_threshold - 20
SimilarScores == {low_threshold, medium_threshold, high_threshold}

VARIABLES
    issues_is_none,     \* the argument is None instead of a list
    issues,             \* the caller's list of issues (argument), <<>> for None
    text_similarity,    \* calculate_text_similarity of the texts of a pair i < j
    n,                  \* len(issues), -1 while unassigned
    similarity_matrix,  \* n x n matrix, <<>> while unbuilt
    similar_groups,     \* the dict of groups, in insertion order
    group_counter,      \* 0 while unassigned
    high_processed,
    medium_processed,
    low_processed,
    similar_indices,    \* the list built by the latest anchor's scan
    anchor,             \* the anchor whose loop body ran in the latest step, -1 if none
    i,                  \* outer loop variable of the current pass
    pc,                 \* position in find_similar_issues
    returned            \* the returned mapping, once pc = "done"

\* ---- a call of calculate_text_similarity ----------------------------------
VARIABLES
    raw1, raw2,          \* the texts of two issues before normalize_text
    text1, text2,        \* the arguments of calculate_text_similarity
    seq_similarity,      \* the four signals and their combination, as
    tfidf_similarity,    \* fractions [num, den]
    overlap_similarity,
    ngram_similarity,
    final_similarity,
    score_pc             \* "texts", "call", "returned"; "idle" in other runs

scoreVars == <<raw1, raw2, text1, text2, seq_similarity, tfidf_similarity,
               overlap_similarity, ngram_similarity, final_similarity, score_pc>>

\* ---- the text of one issue -------------------------------------------------
VARIABLES
    summary,             \* fields.summary
    description,         \* fields.description, <<>> when absent
    issue_text,          \* the combined text, lines 263-269
    normalized_text,     \* normalize_text(text), line 271
    renormalized_text,   \* normalize_text applied to its own output
    norm_pc              \* "issue", "prepared", "normalized", "renormalized";
                         \* "idle" in other runs

normVars == <<summary, description, issue_text, normalized_text,
              renormalized_text, norm_pc>>

\* ---- a call of _text_to_vector, and the same call again --------------------
VARIABLES
    vec_text,            \* the argument
    vector1, vector2,    \* the vectors the two calls returned
    vec_pc               \* "text", "once", "twice"; "idle" in other runs

vectorVars == <<vec_text, vector1, vector2, vec_pc>>

\* ---- a call of calculate_similarities ---------------------------------------
VARIABLES
    embed_issues,        \* the argument: summary and description per issue
    texts,               \* the non-empty ones, line 211
    valid_indices,       \* their input indices, line 212
    embeddings,          \* one entry per text, lines 217-225
    cosine,              \* cosine_similarity(embeddings), the pairs i < j
    similar_pairs,       \* the list returned, lines 235-247
    embed_pc             \* "start", "embed", "pairs", "returned", "raised";
                         \* "idle" in other runs

embedVars == <<embed_issues, texts, valid_indices, embeddings, cosine,
               similar_pairs, embed_pc>>

\* ---- a call of AzureAIAgent.run_analysis -----------------------------------
VARIABLES
    jira_client,         \* self.jira_client is set
    tokens,              \* where the tokens came from: "none", "saved", "interactive"
    fetched_issues,      \* len(issues) once fetched, -1 before
    analysis_results,    \* what analyze_duplicates returned
    report,              \* generate_report has returned
    steps_run,           \* the steps started so far, in order
    run_result,          \* the dict run_analysis returned
    agent_pc             \* "authenticate", "fetch", "analyze", "report",
                         \* "returned"; "idle" in other runs

agentVars == <<jira_client, tokens, fetched_issues, analysis_results, report,
               steps_run, run_result, agent_pc>>

serviceVars == <<vectorVars, embedVars, agentVars>>

textVars == <<scoreVars, normVars, serviceVars>>

vars == <<issues_is_none, issues, text_similarity, n, similarity_matrix, similar_groups,
          group_counter, high_processed, medium_processed, low_processed,
          similar_indices, anchor, i, pc, returned, textVars>>

\* the value of a signal that is not computed
Zero == [num |-> 0, den |-> 1]

\* no call of calculate_text_similarity is modelled in this run
ScoreIdle ==
    /\ raw1 = <<>>
    /\ raw2 = <<>>
    /\ text1 = <<>>
    /\ text2 = <<>>
    /\ seq_similarity = Zero
    /\ tfidf_similarity = Zero
    /\ overlap_similarity = Zero
    /\ ngram_similarity = Zero
    /\ final_similarity = Zero
    /\ score_pc = "idle"

\* no issue text is modelled in this run
NormIdle ==
    /\ summary = <<>>
    /\ description = <<>>
    /\ issue_text = <<>>
    /\ normalized_text = <<>>
    /\ renormalized_text = <<>>
    /\ norm_pc = "idle"

\* no call of _text_to_vector is modelled in this run
VectorIdle ==
    /\ vec_text = <<>>
    /\ vector1 = <<>>
    /\ vector2 = <<>>
    /\ vec_pc = "idle"

\* no call of calculate_similarities is modelled in this run
EmbedIdle ==
    /\ embed_issues = <<>>
    /\ texts = <<>>
    /\ valid_indices = <<>>
    /\ embeddings = <<>>
    /\ cosine = <<>>
    /\ similar_pairs = <<>>
    /\ embed_pc = "idle"

\* analyze_duplicates has not returned
NoAnalysis ==
    [total_issues_analyzed |-> -1, duplicate_groups_found |-> -1,
     insights |-> "none"]

\* run_analysis has not returned
NoResult == [kind |-> "none", message |-> ""]

\* no call of run_analysis is modelled in this run
AgentIdle ==
    /\ jira_client = FALSE
    /\ tokens = "none"
    /\ fetched_issues = -1
    /\ analysis_results = NoAnalysis
    /\ report = FALSE
    /\ steps_run = <<>>
    /\ run_result = NoResult
    /\ agent_pc = "idle"

ServiceIdle == VectorIdle /\ EmbedIdle /\ AgentIdle

Range(s) == {s[k] : k \in 1..Len(s)}

\* Pairs i < j of indices of a list of m issues.
Pairs(m) == {p \in (0..(m - 1)) \X (0..(m - 1)) : p[1] < p[2]}

\* issues[idx]
IssueAt(idx) == issues[idx + 1]

\* mutant: the empty list is not caught
IsEmptyNever(iss) == FALSE

\* `if not issues`: None and the empty list are both falsy
IsEmpty(iss) == issues_is_none \/ Len(iss) = 0

Init ==
    /\ issues_is_none \in BOOLEAN
    /\ \E m \in 0..MaxIssues :
         /\ issues_is_none => m = 0
         /\ issues = [k \in 1..m |-> k - 1]
         /\ \E S \in SUBSET Pairs(m) :
              /\ Cardinality(S) <= MaxSimilarPairs
              /\ \E f \in [S -> SimilarScores] :
                   text_similarity =
                       [p \in Pairs(m) |-> IF p \in S THEN f[p] ELSE UnrelatedScore]
    /\ n = -1
    /\ similarity_matrix = <<>>
    /\ similar_groups = <<>>
    /\ group_counter = 0
    /\ high_processed = {}
    /\ medium_processed = {}
    /\ low_processed = {}
    /\ similar_indices = <<>>
    /\ anchor = -1
    /\ i = 0
    /\ pc = "start"
    /\ returned = <<>>
    /\ ScoreIdle
    /\ NormIdle
    /\ ServiceIdle

\* ---- lines 251-252 --------------------------------------------------------
ReturnEmpty ==
    /\ pc = "start"
    /\ IsEmpty(issues)
    /\ returned' = <<>>
    /\ pc' = "done"
    /\ UNCHANGED <<textVars, issues_is_none, issues, text_similarity, n, similarity_matrix, similar_groups,
                   group_counter, high_processed, medium_processed,
                   low_processed, similar_indices, anchor, i>>

\* mutant: only similarity_matrix[i][j] is written, the mirror entry stays 0
MatrixUpperOnly(m) ==
    [a \in 0..(m - 1) |->
        [b \in 0..(m - 1) |->
            IF a < b THEN text_similarity[<<a, b>>] ELSE 0]]

\* ---- lines 276-284: np.zeros((n, n)), then both halves of every pair ------
MatrixOf(m) ==
    [a \in 0..(m - 1) |->
        [b \in 0..(m - 1) |->
            IF a < b THEN text_similarity[<<a, b>>]
            ELSE IF b < a THEN text_similarity[<<b, a>>]
            ELSE 0]]

BuildMatrix ==
    /\ pc = "start"
    /\ ~IsEmpty(issues)
    /\ n' = Len(issues)
    /\ similarity_matrix' = MatrixOf(Len(issues))
    /\ pc' = "matrix"
    /\ UNCHANGED <<textVars, issues_is_none, issues, text_similarity, similar_groups, group_counter,
                   high_processed, medium_processed, low_processed,
                   similar_indices, anchor, i, returned>>

\* mutant: only the pairs that include the anchor are averaged
RECURSIVE SimilaritiesAnchorOnly(_, _, _, _)
SimilaritiesAnchorOnly(si, k, l, acc) ==
    IF k > 1 \/ l > Len(si) THEN acc
    ELSE SimilaritiesAnchorOnly(si, k, l + 1,
                                Append(acc, similarity_matrix[si[k]][si[l]]))

\* ---- np.mean of the list of pairwise scores (lines 316-323) ---------------
\* similarities: for k in range(len), for l in range(k + 1, len), in loop order.
RECURSIVE Similarities(_, _, _, _)
Similarities(si, k, l, acc) ==
    IF k > Len(si) THEN acc
    ELSE IF l > Len(si) THEN Similarities(si, k + 1, k + 2, acc)
    ELSE Similarities(si, k, l + 1,
                      Append(acc, similarity_matrix[si[k]][si[l]]))

RECURSIVE SumSeq(_)
SumSeq(s) == IF Len(s) = 0 THEN 0 ELSE s[1] + SumSeq(Tail(s))

\* np.mean(similarities) if similarities else 0.0
AvgSimilarity(si) ==
    LET similarities == Similarities(si, 1, 2, <<>>)
    IN IF Len(similarities) > 0
       THEN [num |-> SumSeq(similarities), den |-> Len(similarities)]
       ELSE [num |-> 0, den |-> 1]

\* ---- the dict similar_groups ----------------------------------------------
\* mutant: the key leaves the counter out
GroupKeyNoCounter(prefix, counter) == <<prefix, 0>>

\* f"{prefix}_similarity_group_{group_counter}"
GroupKey(prefix, counter) == <<prefix, counter>>

\* similar_groups[key] = value: a new key is appended, an existing key keeps
\* its position and gets the new value.
DictSet(d, key, value) ==
    IF \E p \in 1..Len(d) : d[p].id = key
    THEN [p \in 1..Len(d) |-> IF d[p].id = key THEN value ELSE d[p]]
    ELSE Append(d, value)

\* mutant: the members are listed from the last match back to the anchor
GroupIssuesReversed(si) == [k \in 1..Len(si) |-> IssueAt(si[Len(si) + 1 - k])]

\* group_issues = [issues[idx] for idx in similar_indices]
GroupIssues(si) == [k \in 1..Len(si) |-> IssueAt(si[k])]

\* mutant: the copied block keeps the first pass's threshold
GroupHighThreshold(prefix, level, threshold, si) ==
    [id |-> GroupKey(prefix, group_counter),
     issues |-> GroupIssues(si),
     avg_similarity |-> AvgSimilarity(si),
     similarity_level |-> level,
     threshold_used |-> high_threshold]

\* the value stored under a group's key, with the key kept as field id
Group(prefix, level, threshold, si) ==
    [id |-> GroupKey(prefix, group_counter),
     issues |-> GroupIssues(si),
     avg_similarity |-> AvgSimilarity(si),
     similarity_level |-> level,
     threshold_used |-> threshold]

\* mutant: the counter steps by two
NextCounterSkip(c) == c + 2

\* group_counter += 1
NextCounter(c) == c + 1

\* `for i in range(n)` moves on to the next index
Advance == i' = i + 1

\* ---- lines 296-300 --------------------------------------------------------
StartHigh ==
    /\ pc = "matrix"
    /\ similar_groups' = <<>>
    /\ group_counter' = 1
    /\ high_processed' = {}
    /\ i' = 0
    /\ pc' = "high"
    /\ UNCHANGED <<textVars, issues_is_none, issues, text_similarity, n, similarity_matrix,
                   medium_processed, low_processed, similar_indices, anchor,
                   returned>>

\* ---- first pass, lines 301-341 --------------------------------------------
\* mutant: a score equal to the threshold does not match
HighMatchStrict(s) == s > high_threshold

\* similarity_matrix[i][j] >= self.high_threshold
HighMatch(s) == s >= high_threshold

\* j not in high_processed
HighEligible(j, hp) == j \notin hp

\* mutant: the scan stops at the first match
RECURSIVE HighScanFirstMatch(_, _, _, _)
HighScanFirstMatch(a, j, si, hp) ==
    IF j >= n THEN [similar_indices |-> si, processed |-> hp]
    ELSE IF j \notin hp /\ similarity_matrix[a][j] >= high_threshold
         THEN [similar_indices |-> Append(si, j), processed |-> hp \cup {j}]
         ELSE HighScanFirstMatch(a, j + 1, si, hp)

\* lines 307-310: for j in range(i + 1, n)
RECURSIVE HighScan(_, _, _, _)
HighScan(a, j, si, hp) ==
    IF j >= n THEN [similar_indices |-> si, processed |-> hp]
    ELSE IF HighEligible(j, hp) /\ HighMatch(similarity_matrix[a][j])
         THEN HighScan(a, j + 1, Append(si, j), hp \cup {j})
         ELSE HighScan(a, j + 1, si, hp)

\* mutant: the anchor of a group is never marked
HighMarkAnchorNever(a, si, hp) == hp

\* lines 340-341: only mark the anchor if a group was created
HighMarkAnchor(a, si, hp) == IF Len(si) > 1 THEN hp \cup {a} ELSE hp

\* mutant: a lone anchor makes a group
CreatesGroupAlways(si) == Len(si) >= 1

\* line 313: if len(similar_indices) > 1
CreatesGroup(si) == Len(si) > 1

\* lines 302-303: if i in high_processed: continue
HighSkip(a) == a \in high_processed

HighIteration ==
    /\ pc = "high"
    /\ i < n
    /\ IF HighSkip(i)
       THEN /\ anchor' = -1
            /\ UNCHANGED <<similar_indices, high_processed, similar_groups,
                           group_counter>>
       ELSE LET scan == HighScan(i, i + 1, <<i>>, high_processed)
                si == scan.similar_indices
            IN /\ anchor' = i
               /\ similar_indices' = si
               /\ IF CreatesGroup(si)
                  THEN /\ similar_groups' =
                            DictSet(similar_groups,
                                    GroupKey("high", group_counter),
                                    Group("high", "High", high_threshold, si))
                       /\ group_counter' = NextCounter(group_counter)
                  ELSE UNCHANGED <<similar_groups, group_counter>>
               /\ high_processed' = HighMarkAnchor(i, si, scan.processed)
    /\ Advance
    /\ UNCHANGED <<textVars, issues_is_none, issues, text_similarity, n, similarity_matrix,
                   medium_processed, low_processed, pc, returned>>

\* mutant: the second pass starts by zeroing the matrix
StartMediumClearsMatrix ==
    /\ pc = "high"
    /\ i >= n
    /\ medium_processed' = {}
    /\ i' = 0
    /\ pc' = "medium"
    /\ similarity_matrix' = [a \in 0..(n - 1) |-> [b \in 0..(n - 1) |-> 0]]
    /\ UNCHANGED <<textVars, issues_is_none, issues, text_similarity, n,
                   similar_groups, group_counter, high_processed,
                   low_processed, similar_indices, anchor, returned>>

\* ---- line 344, once the first loop is exhausted ---------------------------
StartMedium ==
    /\ pc = "high"
    /\ i >= n
    /\ medium_processed' = {}
    /\ i' = 0
    /\ pc' = "medium"
    /\ UNCHANGED <<textVars, issues_is_none, issues, text_similarity, n, similarity_matrix,
                   similar_groups, group_counter, high_processed,
                   low_processed, similar_indices, anchor, returned>>

\* ---- second pass, lines 345-385 -------------------------------------------
\* mutant: a score equal to the lower threshold does not match
MediumMatchAboveOnly(s) == medium_threshold < s /\ s < high_threshold

\* self.medium_threshold <= similarity_matrix[i][j] < self.high_threshold
MediumMatch(s) == medium_threshold <= s /\ s < high_threshold

\* j not in medium_processed and j not in high_processed
MediumEligible(j, mp) == j \notin mp /\ j \notin high_processed

\* lines 351-354
RECURSIVE MediumScan(_, _, _, _)
MediumScan(a, j, si, mp) ==
    IF j >= n THEN [similar_indices |-> si, processed |-> mp]
    ELSE IF MediumEligible(j, mp) /\ MediumMatch(similarity_matrix[a][j])
         THEN MediumScan(a, j + 1, Append(si, j), mp \cup {j})
         ELSE MediumScan(a, j + 1, si, mp)

\* lines 384-385
MediumMarkAnchor(a, si, mp) == IF Len(si) > 1 THEN mp \cup {a} ELSE mp

\* mutant: the skip test forgets the earlier tier
MediumSkipOwnTierOnly(a) == a \in medium_processed

\* lines 346-347: if i in medium_processed or i in high_processed: continue
MediumSkip(a) == a \in medium_processed \/ a \in high_processed

MediumIteration ==
    /\ pc = "medium"
    /\ i < n
    /\ IF MediumSkip(i)
       THEN /\ anchor' = -1
            /\ UNCHANGED <<similar_indices, medium_processed, similar_groups,
                           group_counter>>
       ELSE LET scan == MediumScan(i, i + 1, <<i>>, medium_processed)
                si == scan.similar_indices
            IN /\ anchor' = i
               /\ similar_indices' = si
               /\ IF CreatesGroup(si)
                  THEN /\ similar_groups' =
                            DictSet(similar_groups,
                                    GroupKey("medium", group_counter),
                                    Group("medium", "Medium", medium_threshold, si))
                       /\ group_counter' = NextCounter(group_counter)
                  ELSE UNCHANGED <<similar_groups, group_counter>>
               /\ medium_processed' = MediumMarkAnchor(i, si, scan.processed)
    /\ Advance
    /\ UNCHANGED <<textVars, issues_is_none, issues, text_similarity, n, similarity_matrix,
                   high_processed, low_processed, pc, returned>>

\* ---- line 388, once the second loop is exhausted --------------------------
StartLow ==
    /\ pc = "medium"
    /\ i >= n
    /\ low_processed' = {}
    /\ i' = 0
    /\ pc' = "low"
    /\ UNCHANGED <<textVars, issues_is_none, issues, text_similarity, n, similarity_matrix,
                   similar_groups, group_counter, high_processed,
                   medium_processed, similar_indices, anchor, returned>>

\* ---- third pass, lines 389-429 --------------------------------------------
\* mutant: the lower bound of the Low range is dropped
LowMatchNoLower(s) == s < medium_threshold

\* self.low_threshold <= similarity_matrix[i][j] < self.medium_threshold
LowMatch(s) == low_threshold <= s /\ s < medium_threshold

\* mutant: a candidate is tested against its own tier's set only
LowEligibleOwnTierOnly(j, lp) == j \notin lp

\* j not in low_processed and j not in medium_processed and j not in high_processed
LowEligible(j, lp) ==
    j \notin lp /\ j \notin medium_processed /\ j \notin high_processed

\* lines 395-398
RECURSIVE LowScan(_, _, _, _)
LowScan(a, j, si, lp) ==
    IF j >= n THEN [similar_indices |-> si, processed |-> lp]
    ELSE IF LowEligible(j, lp) /\ LowMatch(similarity_matrix[a][j])
         THEN LowScan(a, j + 1, Append(si, j), lp \cup {j})
         ELSE LowScan(a, j + 1, si, lp)

\* lines 428-429
LowMarkAnchor(a, si, lp) == IF Len(si) > 1 THEN lp \cup {a} ELSE lp

\* lines 390-391
LowSkip(a) ==
    a \in low_processed \/ a \in medium_processed \/ a \in high_processed

LowIteration ==
    /\ pc = "low"
    /\ i < n
    /\ IF LowSkip(i)
       THEN /\ anchor' = -1
            /\ UNCHANGED <<similar_indices, low_processed, similar_groups,
                           group_counter>>
       ELSE LET scan == LowScan(i, i + 1, <<i>>, low_processed)
                si == scan.similar_indices
            IN /\ anchor' = i
               /\ similar_indices' = si
               /\ IF CreatesGroup(si)
                  THEN /\ similar_groups' =
                            DictSet(similar_groups,
                                    GroupKey("low", group_counter),
                                    Group("low", "Low", low_threshold, si))
                       /\ group_counter' = NextCounter(group_counter)
                  ELSE UNCHANGED <<similar_groups, group_counter>>
               /\ low_processed' = LowMarkAnchor(i, si, scan.processed)
    /\ Advance
    /\ UNCHANGED <<textVars, issues_is_none, issues, text_similarity, n, similarity_matrix,
                   high_processed, medium_processed, pc, returned>>

\* ---- line 431 -------------------------------------------------------------
ReturnGroups ==
    /\ pc = "low"
    /\ i >= n
    /\ returned' = similar_groups
    /\ pc' = "done"
    /\ UNCHANGED <<textVars, issues_is_none, issues, text_similarity, n, similarity_matrix,
                   similar_groups, group_counter, high_processed,
                   medium_processed, low_processed, similar_indices, anchor, i>>

\* ==== properties of the tiered grouping ====================================

\* the indices of the issues a group holds (issue k of the input is index k)
Members(g) == Range(g.issues)

\* every index claimed so far, by any tier
Claimed == high_processed \cup medium_processed \cup low_processed

\* the step about to be taken is an iteration of a pass's outer loop
InPass == pc \in {"high", "medium", "low"} /\ i < n

\* an anchor's loop body runs in this step (the iteration is not skipped)
AnchorRuns == InPass /\ i' = i + 1 /\ anchor' # -1

\* the groups of a mapping that hold index x
GroupsHolding(d, x) == {p \in 1..Len(d) : x \in Members(d[p])}

\* C1: after find_similar_issues finishes (and at every point before), each
\* issue is a member of at most one emitted group, High, Medium and Low
\* groups counted together, and appears once in that group's list.
C1_Disjoint ==
    /\ \A x \in 0..(Len(issues) - 1) :
         /\ Cardinality(GroupsHolding(similar_groups, x)) <= 1
         /\ pc = "done" => Cardinality(GroupsHolding(returned, x)) <= 1
    /\ \A p \in 1..Len(similar_groups) :
         Cardinality(Members(similar_groups[p])) = Len(similar_groups[p].issues)

\* the run ended with two groups of different tiers
C1_Witness ==
    /\ pc = "done"
    /\ Len(returned) = 2
    /\ returned[1].similarity_level # returned[2].similarity_level

\* C2: an issue is claimed at most once and never released: each of
\* high_processed, medium_processed, low_processed only grows, no index is in
\* two of them, and an index claimed before a step is neither the anchor nor
\* a candidate of the scan that step runs.
C2_ClaimedOnce ==
    [][/\ high_processed \subseteq high_processed'
       /\ medium_processed \subseteq medium_processed'
       /\ low_processed \subseteq low_processed'
       /\ high_processed' \cap medium_processed' = {}
       /\ high_processed' \cap low_processed' = {}
       /\ medium_processed' \cap low_processed' = {}
       /\ AnchorRuns => Range(similar_indices') \cap Claimed = {}]_vars

\* an anchor's scan claims issues in the Low pass while others are claimed by
\* an earlier tier
C2_Witness ==
    /\ pc = "low"
    /\ i > 0
    /\ anchor # -1
    /\ low_processed # {}
    /\ high_processed \cup medium_processed # {}

\* the range of scores the claim gives each tier
InTierRange(level, s) ==
    CASE level = "High" -> s >= 80
      [] level = "Medium" -> 50 <= s /\ s < 80
      [] level = "Low" -> 30 <= s /\ s < 50
      [] OTHER -> FALSE

\* C3: in every emitted group each non-anchor member j has an index greater
\* than the anchor i, and similarity_matrix[i][j] lies in the range of the
\* group's tier: >= 0.8 High, [0.5, 0.8) Medium, [0.3, 0.5) Low; a score
\* below 0.3 joins nothing.
C3_MembersInTierRange ==
    \A p \in 1..Len(similar_groups) :
        LET g == similar_groups[p]
            a == g.issues[1]
        IN \A k \in 2..Len(g.issues) :
              /\ g.issues[k] > a
              /\ InTierRange(g.similarity_level, similarity_matrix[a][g.issues[k]])
              /\ similarity_matrix[a][g.issues[k]] >= 30

\* a Medium group joined on a score of exactly 0.5 and a Low group joined on
\* a score of exactly 0.3 in one run
C3_Witness ==
    /\ pc = "done"
    /\ \E p, q \in 1..Len(returned) :
         /\ returned[p].similarity_level = "Medium"
         /\ similarity_matrix[returned[p].issues[1]][returned[p].issues[2]] = 50
         /\ returned[q].similarity_level = "Low"
         /\ similarity_matrix[returned[q].issues[1]][returned[q].issues[2]] = 30

\* High before Medium before Low
TierRank(level) ==
    CASE level = "High" -> 1 [] level = "Medium" -> 2 [] level = "Low" -> 3

\* C4: the tiers run in the order High, Medium, Low: a Medium group exists
\* only once the High loop has run over every index, a Low group only once
\* the Medium loop has; groups are emitted in tier order; and a scan of the
\* Medium (Low) pass holds no index claimed by High (High or Medium).
C4_TierOrder ==
    /\ [](/\ \A p \in 1..Len(similar_groups) :
               /\ similar_groups[p].similarity_level = "Medium"
                    => pc \in {"medium", "low", "done"}
               /\ similar_groups[p].similarity_level = "Low"
                    => pc \in {"low", "done"}
          /\ \A p, q \in 1..Len(similar_groups) :
               p < q => TierRank(similar_groups[p].similarity_level)
                          <= TierRank(similar_groups[q].similarity_level)
          /\ pc = "high" => medium_processed = {} /\ low_processed = {}
          /\ pc = "medium" => low_processed = {})
    /\ [][/\ pc' = "medium" /\ pc # "medium" => pc = "high" /\ i = n
          /\ pc' = "low" /\ pc # "low" => pc = "medium" /\ i = n
          /\ AnchorRuns /\ pc = "medium"
               => Range(similar_indices') \cap high_processed = {}
          /\ AnchorRuns /\ pc = "low"
               => Range(similar_indices') \cap
                      (high_processed \cup medium_processed) = {}]_vars

\* a Low group is formed after a High group claimed other issues
C4_Witness ==
    /\ pc = "low"
    /\ Len(similar_groups) = 2
    /\ similar_groups[1].similarity_level = "High"
    /\ similar_groups[2].similarity_level = "Low"
    /\ anchor # -1

\* the unclaimed candidates after anchor a whose score is in a tier's range
InRangeAfter(a, level) ==
    {j \in (a + 1)..(n - 1) :
        j \notin Claimed /\ InTierRange(level, similarity_matrix[a][j])}

\* the tier of the pass at pc
LevelAt(p) ==
    CASE p = "high" -> "High" [] p = "medium" -> "Medium" [] p = "low" -> "Low"

\* C5: no group has fewer than two members; an anchor with no candidate in
\* the tier's range emits nothing and stays unclaimed; every index not yet
\* claimed is taken as anchor when its turn comes in a pass, and joins the
\* anchor's scan when its score is in the range of the pass's tier; an index
\* left unclaimed at its own turn is not claimed later in that pass.
C5_NoSingleton ==
    /\ [](\A p \in 1..Len(similar_groups) : Len(similar_groups[p].issues) >= 2)
    /\ [][/\ AnchorRuns /\ Len(similar_indices') = 1
               => /\ similar_groups' = similar_groups
                  /\ group_counter' = group_counter
                  /\ anchor' \notin (high_processed' \cup medium_processed'
                                       \cup low_processed')
          /\ InPass /\ i \notin Claimed
               => /\ anchor' = i
                  /\ InRangeAfter(i, LevelAt(pc)) \subseteq Range(similar_indices')
          /\ \A x \in 0..(i - 1) :
               InPass /\ x \notin Claimed
                   => x \notin (high_processed' \cup medium_processed'
                                  \cup low_processed')]_vars

\* an anchor found nothing in the High pass and is grouped by the Medium pass
C5_Witness ==
    /\ pc = "medium"
    /\ anchor # -1
    /\ Len(similar_indices) > 1
    /\ Len(similar_groups) = 1
    /\ similar_groups[1].similarity_level = "Medium"

\* C6: three issues A, B, C in that order with score(A,B) >= 0.8 and
\* score(A,C) >= 0.8 give exactly one group, of level High, holding exactly
\* A, B and C, whatever score(B,C) is.
C6_AnchorScenario ==
    (/\ pc = "done"
     /\ Len(issues) = 3
     /\ text_similarity[<<0, 1>>] >= 80
     /\ text_similarity[<<0, 2>>] >= 80)
        => /\ Len(returned) = 1
           /\ returned[1].similarity_level = "High"
           /\ Len(returned[1].issues) = 3
           /\ Members(returned[1]) = {0, 1, 2}

\* the scenario with score(B,C) in the Low range
C6_Witness ==
    /\ pc = "done"
    /\ Len(issues) = 3
    /\ text_similarity[<<0, 1>>] >= 80
    /\ text_similarity[<<0, 2>>] >= 80
    /\ text_similarity[<<1, 2>>] < 50
    /\ text_similarity[<<1, 2>>] >= 30
    /\ Len(returned) = 1

\* C7: a group gets its members only in the step that runs its anchor's scan
\* (the list that scan built, the anchor first), and an emitted group is
\* never changed or removed by a later anchor or tier; the mapping returned
\* is the one built.
C7_GroupsFrozen ==
    [][/\ Len(similar_groups') >= Len(similar_groups)
       /\ \A p \in 1..Len(similar_groups) : similar_groups'[p] = similar_groups[p]
       /\ Len(similar_groups') > Len(similar_groups)
            => /\ Len(similar_groups') = Len(similar_groups) + 1
               /\ AnchorRuns
               /\ anchor' = i
               /\ similar_groups'[Len(similar_groups')].issues = similar_indices'
               /\ similar_indices'[1] = i
       /\ pc' = "done" => returned' = similar_groups]_vars

\* issue 2 scores High against member 1 of the group anchored at 0, is left
\* out of that group and is grouped later with issue 3
C7_Witness ==
    /\ pc = "done"
    /\ Len(returned) = 2
    /\ Members(returned[1]) = {0, 1}
    /\ Members(returned[2]) = {2, 3}
    /\ similarity_matrix[1][2] >= 80

\* the unordered pairs of distinct elements of a set of indices
PairsOf(S) == {pr \in S \X S : pr[1] < pr[2]}

\* the sum of the matrix entries of a set of pairs
RECURSIVE SumScores(_)
SumScores(P) ==
    IF P = {} THEN 0
    ELSE LET x == CHOOSE y \in P : TRUE
         IN similarity_matrix[x[1]][x[2]] + SumScores(P \ {x})

\* C8: avg_similarity of every group is the arithmetic mean of
\* similarity_matrix[a][b] over all unordered pairs {a, b} of distinct
\* members, the pairs without the anchor included.
C8_AvgIsMeanOfAllPairs ==
    \A p \in 1..Len(similar_groups) :
        LET g == similar_groups[p]
            P == PairsOf(Members(g))
        IN /\ g.avg_similarity.den > 0
           /\ Cardinality(P) > 0
           /\ g.avg_similarity.num * Cardinality(P)
                 = g.avg_similarity.den * SumScores(P)

\* a group of three whose pair without the anchor scores differently from
\* the anchor's pairs
C8_Witness ==
    \E p \in 1..Len(similar_groups) :
        LET g == similar_groups[p]
        IN /\ Len(g.issues) = 3
           /\ similarity_matrix[g.issues[2]][g.issues[3]]
                 # similarity_matrix[g.issues[1]][g.issues[2]]
           /\ similarity_matrix[g.issues[2]][g.issues[3]]
                 # similarity_matrix[g.issues[1]][g.issues[3]]

\* C9: a group's level, threshold_used and id prefix name one tier (High,
\* 0.8, high / Medium, 0.5, medium / Low, 0.3, low), and it is the tier of
\* the pass that formed the group.
C9_LevelMatchesTier ==
    /\ [](\A p \in 1..Len(similar_groups) :
            LET g == similar_groups[p]
            IN \/ /\ g.similarity_level = "High"
                  /\ g.threshold_used = 80
                  /\ g.id[1] = "high"
               \/ /\ g.similarity_level = "Medium"
                  /\ g.threshold_used = 50
                  /\ g.id[1] = "medium"
               \/ /\ g.similarity_level = "Low"
                  /\ g.threshold_used = 30
                  /\ g.id[1] = "low")
    /\ [][Len(similar_groups') > Len(similar_groups)
            => /\ InPass
               /\ similar_groups'[Len(similar_groups')].similarity_level
                     = LevelAt(pc)]_vars

\* a run that ends with a High group and a Low group
C9_Witness ==
    /\ pc = "done"
    /\ \E p, q \in 1..Len(returned) :
         /\ returned[p].similarity_level = "High"
         /\ returned[p].threshold_used = 80
         /\ returned[q].similarity_level = "Low"
         /\ returned[q].threshold_used = 30

\* C10: with an empty issue list the call goes straight from its start to
\* its return: the result is the empty mapping, no matrix is built (n is
\* never assigned) and no pass is entered (group_counter is never assigned).
C10_EmptyInput ==
    (~issues_is_none /\ Len(issues) = 0)
        => /\ pc \in {"start", "done"}
           /\ n = -1
           /\ group_counter = 0
           /\ i = 0
           /\ similar_groups = <<>>
           /\ pc = "done" => returned = <<>>

\* the call returned for an empty list
C10_Witness ==
    /\ pc = "done"
    /\ ~issues_is_none
    /\ Len(issues) = 0
    /\ returned = <<>>

\* C11: a call with None for the issue collection fails with an
\* invalid-argument error and returns no group mapping.
C11_NoneRejected ==
    (issues_is_none /\ pc # "start") => pc = "raised"

\* C12: one counter numbers the groups of all three tiers: the p-th group
\* stored has the numeric suffix p and the prefix of its tier, so the
\* suffixes are 1..K without gap or repeat, and group_counter is one more
\* than the number of groups.
C12_SequentialIds ==
    /\ \A p \in 1..Len(similar_groups) :
         /\ similar_groups[p].id[2] = p
         /\ similar_groups[p].id[1]
               = (CASE similar_groups[p].similarity_level = "High" -> "high"
                    [] similar_groups[p].similarity_level = "Medium" -> "medium"
                    [] similar_groups[p].similarity_level = "Low" -> "low")
    /\ \A p, q \in 1..Len(similar_groups) :
         p # q => similar_groups[p].id # similar_groups[q].id
    /\ group_counter # 0 => group_counter = Len(similar_groups) + 1

\* a run whose second group is of a lower tier than its first and is
\* numbered 2
C12_Witness ==
    /\ pc = "done"
    /\ Len(returned) = 2
    /\ returned[1].id[2] = 1
    /\ returned[2].id[2] = 2
    /\ returned[1].id[1] # returned[2].id[1]

\* C13: the matrix is symmetric, its entry for i < j is the score of the
\* texts of the i-th and j-th issue of the input, and every entry lies in
\* [0, 1].
C13_MatrixSymmetric ==
    n # -1 =>
        \A a, b \in 0..(n - 1) :
            /\ similarity_matrix[a][b] = similarity_matrix[b][a]
            /\ a < b => similarity_matrix[a][b] = text_similarity[<<a, b>>]
            /\ similarity_matrix[a][b] >= 0
            /\ similarity_matrix[a][b] <= 100

\* a matrix of three issues or more whose pairs do not all score alike
C13_Witness ==
    /\ n >= 3
    /\ similarity_matrix[0][1] # similarity_matrix[0][2]
    /\ similarity_matrix[1][0] >= 30

\* every index that is a member of some group
Grouped == UNION {Members(similar_groups[p]) : p \in 1..Len(similar_groups)}

\* the indices of the run
Indices == 0..(n - 1)

\* C25: find_similar_issues never changes the caller's issue list or an
\* issue record, and once the matrix is populated the three passes only
\* read it: no later step writes an entry.
C25_InputsUnchanged ==
    [][/\ issues' = issues
       /\ issues_is_none' = issues_is_none
       /\ text_similarity' = text_similarity
       /\ n # -1 => (n' = n /\ similarity_matrix' = similarity_matrix)]_vars

\* the three passes have run over three issues or more and made a group;
\* list and matrix are as they were built
C25_Witness ==
    /\ pc = "done"
    /\ n >= 3
    /\ Len(returned) >= 1
    /\ issues = [k \in 1..n |-> k - 1]
    /\ similarity_matrix = MatrixOf(n)

\* C26: the avg_similarity of a group lies in the range of the tier it is
\* reported under: >= 0.8 for High, [0.5, 0.8) for Medium, [0.3, 0.5) for
\* Low; in particular avg_similarity >= threshold_used.
C26_AvgInTierRange ==
    \A p \in 1..Len(similar_groups) :
        LET g == similar_groups[p]
            avg == g.avg_similarity
        IN /\ avg.num >= g.threshold_used * avg.den
           /\ g.similarity_level = "Medium" => avg.num < high_threshold * avg.den
           /\ g.similarity_level = "Low" => avg.num < medium_threshold * avg.den

\* C27: when find_similar_issues returns, two issues that are both outside
\* every group score below 0.3 against each other; after the High pass two
\* issues that are both unclaimed score below 0.8 against each other.
C27_PassesComplete ==
    /\ pc = "done" =>
          \A a, b \in Indices :
              (a # b /\ a \notin Grouped /\ b \notin Grouped)
                  => similarity_matrix[a][b] < low_threshold
    /\ pc \in {"medium", "low", "done"} =>
          \A a, b \in Indices :
              (a # b /\ a \notin high_processed /\ b \notin high_processed)
                  => similarity_matrix[a][b] < high_threshold

\* the run returned a group and left two issues out
C27_Witness ==
    /\ pc = "done"
    /\ Len(returned) >= 1
    /\ \E a, b \in Indices : a < b /\ a \notin Grouped /\ b \notin Grouped

\* C28, as stated: an issue that scores 0.3 or more against at least one
\* other issue is a member of some group when the run returns.
C28_Original ==
    pc = "done" =>
        \A a \in Indices :
            (\E b \in Indices : b # a /\ similarity_matrix[a][b] >= low_threshold)
                => a \in Grouped

\* the tier whose range holds a score of 0.3 or more
ScoreTier(s) ==
    IF s >= high_threshold THEN "High"
    ELSE IF s >= medium_threshold THEN "Medium" ELSE "Low"

\* C28, amended: an issue is left out of every group only if every issue it
\* scores 0.3 or more against is a member of a group of the score's tier or
\* of a higher tier, that is, was claimed before the two could be paired.
C28_LeftOutPartnersClaimed ==
    pc = "done" =>
        \A a, b \in Indices :
            (a # b /\ a \notin Grouped /\ similarity_matrix[a][b] >= low_threshold)
                => \E p \in 1..Len(similar_groups) :
                      /\ b \in Members(similar_groups[p])
                      /\ TierRank(similar_groups[p].similarity_level)
                            <= TierRank(ScoreTier(similarity_matrix[a][b]))

\* the run returned and left out an issue that scores 0.3 or more against
\* another one
C28_Witness ==
    /\ pc = "done"
    /\ \E a, b \in Indices :
          a # b /\ a \notin Grouped /\ similarity_matrix[a][b] >= low_threshold

\* C29: the members of a group are listed in strictly ascending input
\* order, the anchor first: the anchor has the smallest index and no member
\* is listed twice.
C29_MembersAscending ==
    /\ \A p \in 1..Len(similar_groups) :
          LET members == similar_groups[p].issues
          IN \A k, l \in 1..Len(members) : k < l => members[k] < members[l]
    /\ (anchor # -1 /\ CreatesGroup(similar_indices)) =>
          /\ Len(similar_groups) >= 1
          /\ similar_groups[Len(similar_groups)].issues[1] = IssueAt(anchor)

\* an anchor has just made a group of three members or more
C29_Witness ==
    /\ anchor # -1
    /\ Len(similar_indices) >= 3
    /\ Len(similar_groups) >= 1
    /\ Len(similar_groups[Len(similar_groups)].issues) >= 3

Next ==
    \/ ReturnEmpty
    \/ BuildMatrix
    \/ StartHigh
    \/ HighIteration
    \/ StartMedium
    \/ MediumIteration
    \/ StartLow
    \/ LowIteration
    \/ ReturnGroups

Spec == Init /\ [][Next]_vars

(***************************************************************************)
(* Texts.  A string is a sequence of one-character strings.                *)
(***************************************************************************)

\* \s of the regular expressions and the separators of str.split()
IsSpaceChar(c) == c \in {" ", "\t", "\n"}

\* punctuation: neither \w nor \s
IsPunctChar(c) == c \in {"-", "<", ">", "/", ".", "!"}

\* \w: letters, digits and the underscore
IsWordChar(c) == ~IsSpaceChar(c) /\ ~IsPunctChar(c)

\* str.lower() on one character
LowerChar(c) ==
    CASE c = "B" -> "b"
      [] c = "F" -> "f"
      [] c = "N" -> "n"
      [] c = "D" -> "d"
      [] OTHER -> c

\* text.lower()
Lower(text) == [k \in 1..Len(text) |-> LowerChar(text[k])]

\* text.split(): the maximal runs of characters that are not whitespace
RECURSIVE SplitFrom(_, _, _, _)
SplitFrom(text, k, cur, acc) ==
    IF k > Len(text)
    THEN IF Len(cur) > 0 THEN Append(acc, cur) ELSE acc
    ELSE IF IsSpaceChar(text[k])
         THEN SplitFrom(text, k + 1, <<>>,
                        IF Len(cur) > 0 THEN Append(acc, cur) ELSE acc)
         ELSE SplitFrom(text, k + 1, Append(cur, text[k]), acc)

Split(text) == SplitFrom(text, 1, <<>>, <<>>)

\* all strings over an alphabet of at most the given length
RECURSIVE StringsOver(_, _)
StringsOver(alphabet, len) ==
    IF len = 0 THEN {<<>>}
    ELSE LET shorter == StringsOver(alphabet, len - 1)
         IN shorter \cup {Append(t, c) : t \in shorter, c \in alphabet}

\* ---- difflib.SequenceMatcher(None, a, b).ratio(), line 143 ----------------
\* Indices are 0-based and ranges half-open as in difflib: a[i] is a[i + 1].

\* j2len of find_longest_match: the length of the run of equal elements that
\* ends at a[ia], b[jb] and starts no earlier than alo, blo
RECURSIVE RunLength(_, _, _, _, _, _)
RunLength(a, b, alo, blo, ia, jb) ==
    IF ia < alo \/ jb < blo THEN 0
    ELSE IF a[ia + 1] # b[jb + 1] THEN 0
    ELSE 1 + RunLength(a, b, alo, blo, ia - 1, jb - 1)

\* find_longest_match(alo, ahi, blo, bhi): i ascending, then j ascending,
\* the best block is replaced only by a strictly longer one (k > bestsize)
FindLongestMatch(a, b, alo, ahi, blo, bhi) ==
    LET ends == (alo..(ahi - 1)) \X (blo..(bhi - 1))
        len(e) == RunLength(a, b, alo, blo, e[1], e[2])
        longest == {e \in ends : len(e) > 0 /\ \A f \in ends : len(f) <= len(e)}
    IN IF longest = {} THEN <<alo, blo, 0>>
       ELSE LET e == CHOOSE x \in longest :
                        \A y \in longest :
                            x[1] < y[1] \/ (x[1] = y[1] /\ x[2] <= y[2])
                k == len(e)
            IN <<e[1] - k + 1, e[2] - k + 1, k>>

\* get_matching_blocks: the block, then the parts left and right of it;
\* the sum of the block sizes
RECURSIVE MatchedSize(_, _, _, _, _, _)
MatchedSize(a, b, alo, ahi, blo, bhi) ==
    LET m == FindLongestMatch(a, b, alo, ahi, blo, bhi)
        x == m[1]
        y == m[2]
        k == m[3]
    IN IF k = 0 THEN 0
       ELSE k
            + (IF alo < x /\ blo < y
               THEN MatchedSize(a, b, alo, x, blo, y) ELSE 0)
            + (IF x + k < ahi /\ y + k < bhi
               THEN MatchedSize(a, b, x + k, ahi, y + k, bhi) ELSE 0)

\* ratio(): 2.0 * matches / length, 1.0 for two empty sequences
SequenceRatio(a, b) ==
    LET length == Len(a) + Len(b)
    IN IF length > 0
       THEN [num |-> 2 * MatchedSize(a, b, 0, Len(a), 0, Len(b)), den |-> length]
       ELSE [num |-> 1, den |-> 1]

\* ---- TfidfVectorizer(stop_words='english', ngram_range=(1, 2),
\*      lowercase=True).fit_transform([text1, text2]), lines 34-39 and 147 ----

\* token_pattern r"(?u)\b\w\w+\b": the maximal runs of word characters
RECURSIVE WordRunsFrom(_, _, _, _)
WordRunsFrom(text, k, cur, acc) ==
    IF k > Len(text)
    THEN IF Len(cur) > 0 THEN Append(acc, cur) ELSE acc
    ELSE IF ~IsWordChar(text[k])
         THEN WordRunsFrom(text, k + 1, <<>>,
                           IF Len(cur) > 0 THEN Append(acc, cur) ELSE acc)
         ELSE WordRunsFrom(text, k + 1, Append(cur, text[k]), acc)

\* the words of sklearn's English stop list that the texts of the model
\* can spell
EnglishStopWords ==
    {<<"a">>, <<"a", "s">>, <<"i", "s">>, <<"i", "n">>, <<"t", "o">>}

\* ... of two or more characters
MinTokenLen == 2

\* build_analyzer: lowercase, tokenize, drop the stop words
RECURSIVE KeepTokens(_)
KeepTokens(runs) ==
    IF Len(runs) = 0 THEN <<>>
    ELSE LET rest == KeepTokens(Tail(runs))
         IN IF Len(runs[1]) >= MinTokenLen /\ runs[1] \notin EnglishStopWords
            THEN <<runs[1]>> \o rest
            ELSE rest

TfidfTokens(text) == KeepTokens(WordRunsFrom(Lower(text), 1, <<>>, <<>>))

\* _word_ngrams with ngram_range (1, 2): every token, then every pair of
\* neighbouring tokens; a term is the sequence of its tokens
TfidfTerms(text) ==
    LET toks == TfidfTokens(text)
    IN [k \in 1..Len(toks) |-> <<toks[k]>>]
       \o [k \in 1..(Len(toks) - 1) |-> <<toks[k], toks[k + 1]>>]

\* the term's count in a document
TermCount(term, terms) == Cardinality({k \in 1..Len(terms) : terms[k] = term})

\* smooth idf, squared, in hundredths: ln(3/3) + 1 = 1 for a term of both
\* documents, ln(3/2) + 1 = 1.405 for a term of one
IdfSqShared == 100
IdfSqSingle == 198

RECURSIVE SumOverTerms(_, _, _)
SumOverTerms(T, terms1, terms2) ==
    IF T = {} THEN [dot |-> 0, sq1 |-> 0, sq2 |-> 0]
    ELSE LET t == CHOOSE x \in T : TRUE
             c1 == TermCount(t, terms1)
             c2 == TermCount(t, terms2)
             w == IF c1 > 0 /\ c2 > 0 THEN IdfSqShared ELSE IdfSqSingle
             r == SumOverTerms(T \ {t}, terms1, terms2)
         IN [dot |-> r.dot + c1 * c2,
             sq1 |-> r.sq1 + w * c1 * c1,
             sq2 |-> r.sq2 + w * c2 * c2]

\* the integer square root
RECURSIVE ISqrtFrom(_, _)
ISqrtFrom(x, r) == IF (r + 1) * (r + 1) > x THEN r ELSE ISqrtFrom(x, r + 1)

ISqrt(x) == ISqrtFrom(x, 0)

\* lines 146-150: the cosine of the two tf-idf rows; fit_transform raises
\* ValueError (empty vocabulary) when neither text has a term, and the
\* bare except turns that into 0.0.  The norm is rounded down to an integer.
TfidfSimilarity(t1, t2) ==
    LET terms1 == TfidfTerms(t1)
        terms2 == TfidfTerms(t2)
        vocabulary == Range(terms1) \cup Range(terms2)
        sums == SumOverTerms(vocabulary, terms1, terms2)
    IN IF vocabulary = {} THEN [num |-> 0, den |-> 1]
       ELSE IF sums.sq1 = 0 \/ sums.sq2 = 0 \/ sums.dot = 0
            THEN [num |-> 0, den |-> 1]
            ELSE [num |-> 100 * sums.dot, den |-> ISqrt(sums.sq1 * sums.sq2)]

\* ---- lines 152-169: the two Jaccard overlaps --------------------------------
\* len(s1.intersection(s2)) / len(s1.union(s2)) if s1 or s2 else 0.0
Jaccard(s1, s2) ==
    IF s1 # {} \/ s2 # {}
    THEN [num |-> Cardinality(s1 \cap s2), den |-> Cardinality(s1 \cup s2)]
    ELSE [num |-> 0, den |-> 1]

\* set(text.split())
WordSet(text) == Range(Split(text))

\* the default n of get_ngrams
NgramSize == 3

\* get_ngrams: set(text[i:i+n] for i in range(len(text) - n + 1))
GetNgrams(text) ==
    {SubSeq(text, k, k + NgramSize - 1) : k \in 1..(Len(text) - NgramSize + 1)}

\* ---- lines 171-179: the weighted combination, weights in tenths -----------
SeqWeight == 3
TfidfWeight == 3
OverlapWeight == 2
NgramWeight == 2

\* mutant: the weights add up to more than 1
FinalSimilarityHeavy(sq, tf, ov, ng) ==
    [num |-> 5 * sq.num * tf.den * ov.den * ng.den
             + TfidfWeight * tf.num * sq.den * ov.den * ng.den
             + OverlapWeight * ov.num * sq.den * tf.den * ng.den
             + NgramWeight * ng.num * sq.den * tf.den * ov.den,
     den |-> 10 * sq.den * tf.den * ov.den * ng.den]

FinalSimilarity(sq, tf, ov, ng) ==
    [num |-> SeqWeight * sq.num * tf.den * ov.den * ng.den
             + TfidfWeight * tf.num * sq.den * ov.den * ng.den
             + OverlapWeight * ov.num * sq.den * tf.den * ng.den
             + NgramWeight * ng.num * sq.den * tf.den * ov.den,
     den |-> 10 * sq.den * tf.den * ov.den * ng.den]

\* `not text`
IsEmptyText(text) == Len(text) = 0

\* ---- normalize_text, lines 96-135 -----------------------------------------
\* re.sub(r'[^\w\s]', ' ', text)
ReplaceSpecial(text) ==
    [k \in 1..Len(text) |->
        IF IsWordChar(text[k]) \/ IsSpaceChar(text[k]) THEN text[k] ELSE " "]

\* re.sub(r'\s+', ' ', text): every run of whitespace becomes one space
RECURSIVE CollapseFrom(_, _, _)
CollapseFrom(text, k, acc) ==
    IF k > Len(text) THEN acc
    ELSE IF IsSpaceChar(text[k])
         THEN IF k > 1 /\ IsSpaceChar(text[k - 1])
              THEN CollapseFrom(text, k + 1, acc)
              ELSE CollapseFrom(text, k + 1, Append(acc, " "))
         ELSE CollapseFrom(text, k + 1, Append(acc, text[k]))

CollapseWhitespace(text) == CollapseFrom(text, 1, <<>>)

\* common_words, line 111
CommonWords ==
    {<<"e", "r", "r", "o", "r">>,
     <<"i", "s", "s", "u", "e">>,
     <<"b", "u", "g">>,
     <<"p", "r", "o", "b", "l", "e", "m">>,
     <<"f", "i", "x">>,
     <<"r", "e", "s", "o", "l", "v", "e">>}

\* the keys of word_mapping, lines 116-126
MappingKeys ==
    {<<"n", "a", "v", "i", "g", "a", "t", "o", "r">>,
     <<"n", "a", "v", "i", "g", "a", "t", "e">>,
     <<"n", "a", "v", "i", "g", "a", "t", "i", "n", "g">>,
     <<"d", "e", "s", "i", "g", "n", "e", "r">>,
     <<"d", "e", "s", "i", "g", "n", "i", "n", "g">>,
     <<"m", "a", "n", "a", "g", "e", "r">>,
     <<"m", "a", "n", "a", "g", "i", "n", "g">>,
     <<"c", "o", "n", "f", "i", "g", "u", "r", "a", "t", "i", "o", "n">>,
     <<"c", "o", "n", "f", "i", "g", "u", "r", "e">>}

\* mutant: every key is mapped to a word of common_words
MapWordToCommonWord(word) ==
    IF word \in MappingKeys THEN <<"f", "i", "x">> ELSE word

\* word_mapping[word] if word in word_mapping else word, lines 129-133
MapWord(word) ==
    CASE word = <<"n", "a", "v", "i", "g", "a", "t", "o", "r">>
           -> <<"n", "a", "v", "i", "g", "a", "t", "i", "o", "n">>
      [] word = <<"n", "a", "v", "i", "g", "a", "t", "e">>
           -> <<"n", "a", "v", "i", "g", "a", "t", "i", "o", "n">>
      [] word = <<"n", "a", "v", "i", "g", "a", "t", "i", "n", "g">>
           -> <<"n", "a", "v", "i", "g", "a", "t", "i", "o", "n">>
      [] word = <<"d", "e", "s", "i", "g", "n", "e", "r">>
           -> <<"d", "e", "s", "i", "g", "n">>
      [] word = <<"d", "e", "s", "i", "g", "n", "i", "n", "g">>
           -> <<"d", "e", "s", "i", "g", "n">>
      [] word = <<"m", "a", "n", "a", "g", "e", "r">>
           -> <<"m", "a", "n", "a", "g", "e">>
      [] word = <<"m", "a", "n", "a", "g", "i", "n", "g">>
           -> <<"m", "a", "n", "a", "g", "e">>
      [] word = <<"c", "o", "n", "f", "i", "g", "u", "r", "a", "t", "i", "o", "n">>
           -> <<"c", "o", "n", "f", "i", "g">>
      [] word = <<"c", "o", "n", "f", "i", "g", "u", "r", "e">>
           -> <<"c", "o", "n", "f", "i", "g">>
      [] OTHER -> word

\* mutant: no word is filtered out
RemoveCommonWordsNever(words) == words

\* [word for word in words if word not in common_words], line 113
RECURSIVE RemoveCommonWords(_)
RemoveCommonWords(words) ==
    IF Len(words) = 0 THEN <<>>
    ELSE LET rest == RemoveCommonWords(Tail(words))
         IN IF words[1] \in CommonWords THEN rest ELSE <<words[1]>> \o rest

\* lines 128-133
MapWords(words) == [k \in 1..Len(words) |-> MapWord(words[k])]

\* ' '.join(words)
RECURSIVE JoinWords(_)
JoinWords(words) ==
    IF Len(words) = 0 THEN <<>>
    ELSE IF Len(words) = 1 THEN words[1]
    ELSE words[1] \o <<" ">> \o JoinWords(Tail(words))

\* str.strip()
RECURSIVE StripLeft(_)
StripLeft(text) ==
    IF Len(text) > 0 /\ IsSpaceChar(text[1]) THEN StripLeft(Tail(text)) ELSE text

RECURSIVE StripRight(_)
StripRight(text) ==
    IF Len(text) > 0 /\ IsSpaceChar(text[Len(text)])
    THEN StripRight(SubSeq(text, 1, Len(text) - 1))
    ELSE text

Strip(text) == StripRight(StripLeft(text))

NormalizeText(text) ==
    IF IsEmptyText(text) THEN <<>>
    ELSE LET cleaned == CollapseWhitespace(ReplaceSpecial(Lower(text)))
             words == RemoveCommonWords(Split(cleaned))
         IN Strip(JoinWords(MapWords(words)))

\* ---- the text of an issue, lines 259-269 ------------------------------------
\* re.sub(r'<[^>]+>', '', description): a "<", one or more characters other
\* than ">", and the ">" that follows them
RECURSIVE StripTagsFrom(_, _, _)
StripTagsFrom(text, k, acc) ==
    IF k > Len(text) THEN acc
    ELSE LET closers == {q \in (k + 1)..Len(text) : text[q] = ">"}
             close == IF closers = {} THEN 0
                      ELSE CHOOSE q \in closers : \A r \in closers : q <= r
         IN IF text[k] = "<" /\ close >= k + 2
            THEN StripTagsFrom(text, close + 1, acc)
            ELSE StripTagsFrom(text, k + 1, Append(acc, text[k]))

StripTags(text) == StripTagsFrom(text, 1, <<>>)

\* lines 263-269: the summary, then the cleaned description if there is one
PrepareText(summ, desc) ==
    IF IsEmptyText(desc) THEN summ
    ELSE LET cleaned == Strip(StripTags(desc))
         IN IF IsEmptyText(cleaned) THEN summ
            ELSE summ \o <<" ">> \o cleaned

\* no call of find_similar_issues is modelled in this run
GroupingIdle ==
    /\ issues_is_none = FALSE
    /\ issues = <<>>
    /\ text_similarity = <<>>
    /\ n = -1
    /\ similarity_matrix = <<>>
    /\ similar_groups = <<>>
    /\ group_counter = 0
    /\ high_processed = {}
    /\ medium_processed = {}
    /\ low_processed = {}
    /\ similar_indices = <<>>
    /\ anchor = -1
    /\ i = 0
    /\ pc = "idle"
    /\ returned = <<>>

groupingVars ==
    <<issues_is_none, issues, text_similarity, n, similarity_matrix,
      similar_groups, group_counter, high_processed, medium_processed,
      low_processed, similar_indices, anchor, i, pc, returned>>

(***************************************************************************)
(* SpecScore: calculate_text_similarity, called with two texts directly    *)
(* or, as find_similar_issues does (lines 271 and 282), with the           *)
(* normalized texts of two issues.                                         *)
(***************************************************************************)

\* bound of the model: the length of a text
MaxTextLen == 3

\* the characters of the texts: two letters and the space
ScoreAlphabet == {"a", "s", " "}

ScoreInit ==
    /\ GroupingIdle
    /\ NormIdle
    /\ ServiceIdle
    /\ \/ /\ score_pc = "texts"
          /\ raw1 \in StringsOver(ScoreAlphabet, MaxTextLen)
          /\ raw2 \in StringsOver(ScoreAlphabet, MaxTextLen)
          /\ text1 = <<>>
          /\ text2 = <<>>
       \/ /\ score_pc = "call"
          /\ raw1 = <<>>
          /\ raw2 = <<>>
          /\ text1 \in StringsOver(ScoreAlphabet, MaxTextLen)
          /\ text2 \in StringsOver(ScoreAlphabet, MaxTextLen)
    /\ seq_similarity = Zero
    /\ tfidf_similarity = Zero
    /\ overlap_similarity = Zero
    /\ ngram_similarity = Zero
    /\ final_similarity = Zero

\* lines 271-272 and 282: the arguments are issue_texts[i], issue_texts[j]
NormalizeIssueTexts ==
    /\ score_pc = "texts"
    /\ text1' = NormalizeText(raw1)
    /\ text2' = NormalizeText(raw2)
    /\ score_pc' = "call"
    /\ UNCHANGED <<raw1, raw2, seq_similarity, tfidf_similarity,
                   overlap_similarity, ngram_similarity, final_similarity,
                   groupingVars, normVars,
                   serviceVars>>

\* mutant: the guard is missing
EitherEmptyNever(t1, t2) == FALSE

\* line 139: if not text1 or not text2
EitherEmpty(t1, t2) == IsEmptyText(t1) \/ IsEmptyText(t2)

\* lines 139-140: return 0.0
ReturnZero ==
    /\ score_pc = "call"
    /\ EitherEmpty(text1, text2)
    /\ final_similarity' = Zero
    /\ score_pc' = "returned"
    /\ UNCHANGED <<raw1, raw2, text1, text2, seq_similarity, tfidf_similarity,
                   overlap_similarity, ngram_similarity, groupingVars, normVars,
                   serviceVars>>

\* lines 142-179
CalculateTextSimilarity ==
    /\ score_pc = "call"
    /\ ~EitherEmpty(text1, text2)
    /\ seq_similarity' = SequenceRatio(text1, text2)
    /\ tfidf_similarity' = TfidfSimilarity(text1, text2)
    /\ overlap_similarity' = Jaccard(WordSet(text1), WordSet(text2))
    /\ ngram_similarity' = Jaccard(GetNgrams(text1), GetNgrams(text2))
    /\ final_similarity' = FinalSimilarity(seq_similarity', tfidf_similarity',
                                           overlap_similarity', ngram_similarity')
    /\ score_pc' = "returned"
    /\ UNCHANGED <<raw1, raw2, text1, text2, groupingVars, normVars,
                   serviceVars>>

ScoreNext ==
    \/ NormalizeIssueTexts
    \/ ReturnZero
    \/ CalculateTextSimilarity

SpecScore == ScoreInit /\ [][ScoreNext]_vars

\* calculate_text_similarity(t1, t2), lines 137-179
ScoreOf(t1, t2) ==
    IF EitherEmpty(t1, t2) THEN Zero
    ELSE FinalSimilarity(SequenceRatio(t1, t2), TfidfSimilarity(t1, t2),
                         Jaccard(WordSet(t1), WordSet(t2)),
                         Jaccard(GetNgrams(t1), GetNgrams(t2)))

\* ==== properties of the scorer ==============================================

\* a fraction is 1
IsOne(f) == f.den > 0 /\ f.num = f.den

\* a fraction lies in [0, 1]
InUnitInterval(f) == f.den > 0 /\ 0 <= f.num /\ f.num <= f.den

\* two fractions are the same number
SameNumber(f, g) == f.num * g.den = g.num * f.den

\* a score in hundredths, rounded down, as the tier tests read it
Hundredths(f) == (100 * f.num) \div f.den

\* the score makes a candidate join an anchor in some tier
Joins(f) ==
    \/ HighMatch(Hundredths(f))
    \/ MediumMatch(Hundredths(f))
    \/ LowMatch(Hundredths(f))

\* a text of whitespace only
IsBlank(t) == Len(t) > 0 /\ \A k \in 1..Len(t) : IsSpaceChar(t[k])

\* C14: an issue text that is empty or whitespace-only is normalized to the
\* empty string; calculate_text_similarity with an empty argument returns
\* exactly 0 without computing any signal, and a score of 0 joins no group.
C14_EmptyTextScoresZero ==
    /\ (score_pc \in {"call", "returned"} /\ IsBlank(raw1)) => text1 = <<>>
    /\ (score_pc \in {"call", "returned"} /\ IsBlank(raw2)) => text2 = <<>>
    /\ (score_pc = "returned" /\ (text1 = <<>> \/ text2 = <<>>))
          => /\ final_similarity.num = 0
             /\ final_similarity.den > 0
             /\ ~Joins(final_similarity)
             /\ seq_similarity = Zero
             /\ tfidf_similarity = Zero

\* the text of one issue is whitespace-only, the other's is not, and the
\* call returned
C14_Witness ==
    /\ score_pc = "returned"
    /\ raw1 = <<" ", " ">>
    /\ raw2 = <<"s", "a", "s">>
    /\ text1 = <<>>
    /\ text2 = <<"s", "a", "s">>
    /\ final_similarity = Zero

\* C15: score(x, x) is exactly 1.0 for every non-empty normalized x, each
\* of the four signals being 1.0.
C15_IdenticalScoresOne ==
    (/\ score_pc = "returned"
     /\ text1 = text2
     /\ text1 # <<>>
     /\ NormalizeText(text1) = text1)
        => /\ IsOne(final_similarity)
           /\ IsOne(seq_similarity)
           /\ IsOne(tfidf_similarity)
           /\ IsOne(overlap_similarity)
           /\ IsOne(ngram_similarity)

\* C16: calculate_text_similarity(a, b) = calculate_text_similarity(b, a).
C16_ScoreSymmetric ==
    score_pc = "returned"
        => SameNumber(final_similarity, ScoreOf(text2, text1))

\* the weighted sum 0.3 seq + 0.3 tfidf + 0.2 overlap + 0.2 ngram, over the
\* common denominator 10 * D
WeightedSum(sq, tf, ov, ng, D) ==
    3 * sq.num * (D \div sq.den) + 3 * tf.num * (D \div tf.den)
    + 2 * ov.num * (D \div ov.den) + 2 * ng.num * (D \div ng.den)

\* C17: every signal lies in [0, 1], the result is
\* 0.3 seq + 0.3 tfidf + 0.2 overlap + 0.2 ngram and lies in [0, 1]; a
\* Jaccard overlap of two empty sets is 0, and two texts without any
\* TF-IDF term give a TF-IDF signal of 0 and still a result.
C17_ScoreInUnitInterval ==
    score_pc = "returned" =>
        /\ InUnitInterval(seq_similarity)
        /\ InUnitInterval(tfidf_similarity)
        /\ InUnitInterval(overlap_similarity)
        /\ InUnitInterval(ngram_similarity)
        /\ InUnitInterval(final_similarity)
        /\ ~EitherEmpty(text1, text2) =>
             LET D == seq_similarity.den * tfidf_similarity.den
                      * overlap_similarity.den * ngram_similarity.den
             IN /\ 10 * D * final_similarity.num
                     = final_similarity.den
                       * WeightedSum(seq_similarity, tfidf_similarity,
                                     overlap_similarity, ngram_similarity, D)
                /\ (WordSet(text1) = {} /\ WordSet(text2) = {})
                      => overlap_similarity.num = 0
                /\ (Len(text1) < 3 /\ Len(text2) < 3)
                      => ngram_similarity.num = 0
                /\ (TfidfTerms(text1) = <<>> /\ TfidfTerms(text2) = <<>>)
                      => tfidf_similarity.num = 0

\* two texts without a TF-IDF term and without a trigram still get a score
C17_Witness ==
    /\ score_pc = "returned"
    /\ text1 = <<"a">>
    /\ text2 = <<"a", " ">>
    /\ TfidfTerms(text1) = <<>>
    /\ tfidf_similarity.num = 0
    /\ ngram_similarity.num = 0
    /\ final_similarity.num > 0

(***************************************************************************)
(* SpecNorm: the text of one issue, as find_similar_issues prepares it     *)
(* (lines 257-272), and normalize_text applied to it and to its own        *)
(* output.                                                                 *)
(***************************************************************************)

\* bound of the model: the number of pieces a summary is made of
MaxPieces == 3

\* the pieces of a summary: a stop word, a capitalised stop word, a key of
\* word_mapping, an ordinary word, whitespace, punctuation and a markup tag
SummaryPieces ==
    {<<"b", "u", "g">>,
     <<"F", "i", "x">>,
     <<"n", "a", "v", "i", "g", "a", "t", "o", "r">>,
     <<"l", "o", "g", "i", "n">>,
     <<" ">>,
     <<"\t">>,
     <<"-">>,
     <<"<", "d", "i", "v", ">">>}

\* the concatenations of at most k pieces
RECURSIVE TextsOf(_)
TextsOf(k) ==
    IF k = 0 THEN {<<>>}
    ELSE LET shorter == TextsOf(k - 1)
         IN shorter \cup {t \o p : t \in shorter, p \in SummaryPieces}

\* the descriptions: absent, blank, a tag alone, a tag before a word, a stop
\* word before a tag
Descriptions ==
    {<<>>,
     <<" ">>,
     <<"<", "d", "i", "v", ">">>,
     <<"<", "d", "i", "v", ">", "l", "o", "g", "i", "n">>,
     <<"b", "u", "g", " ", "<", "d", "i", "v", ">">>}

NormInit ==
    /\ GroupingIdle
    /\ ScoreIdle
    /\ ServiceIdle
    /\ summary \in TextsOf(MaxPieces)
    /\ description \in Descriptions
    /\ issue_text = <<>>
    /\ normalized_text = <<>>
    /\ renormalized_text = <<>>
    /\ norm_pc = "issue"

\* lines 259-269
PrepareIssueText ==
    /\ norm_pc = "issue"
    /\ issue_text' = PrepareText(summary, description)
    /\ norm_pc' = "prepared"
    /\ UNCHANGED <<summary, description, normalized_text, renormalized_text,
                   groupingVars, scoreVars,
                   serviceVars>>

\* line 271
NormalizeIssueText ==
    /\ norm_pc = "prepared"
    /\ normalized_text' = NormalizeText(issue_text)
    /\ norm_pc' = "normalized"
    /\ UNCHANGED <<summary, description, issue_text, renormalized_text,
                   groupingVars, scoreVars,
                   serviceVars>>

\* normalize_text called with a text it returned
NormalizeAgain ==
    /\ norm_pc = "normalized"
    /\ renormalized_text' = NormalizeText(normalized_text)
    /\ norm_pc' = "renormalized"
    /\ UNCHANGED <<summary, description, issue_text, normalized_text,
                   groupingVars, scoreVars,
                   serviceVars>>

NormNext ==
    \/ PrepareIssueText
    \/ NormalizeIssueText
    \/ NormalizeAgain

SpecNorm == NormInit /\ [][NormNext]_vars

\* ==== properties of the issue text ========================================

\* the words of a normalized text
Tokens(text) == Range(Split(text))

\* normalize_text has returned for the issue text
Normalized == norm_pc \in {"normalized", "renormalized"}

\* C18: normalize_text is idempotent, normalize_text(normalize_text(x)) =
\* normalize_text(x) for every text x, and no value of word_mapping is a
\* common word or a key of word_mapping.
C18_NormalizeIdempotent ==
    /\ norm_pc = "renormalized" => renormalized_text = normalized_text
    /\ \A key \in MappingKeys :
          /\ MapWord(key) \notin CommonWords
          /\ MapWord(key) \notin MappingKeys

\* a summary "Fix-navigator" was normalized to "navigation", and that text
\* was normalized again
C18_Witness ==
    /\ norm_pc = "renormalized"
    /\ summary = <<"F", "i", "x", "-",
                   "n", "a", "v", "i", "g", "a", "t", "o", "r">>
    /\ normalized_text = <<"n", "a", "v", "i", "g", "a", "t", "i", "o", "n">>
    /\ renormalized_text = normalized_text

\* the name of the markup tag of the modelled texts; "div" occurs in a
\* summary or a description only between "<" and ">"
TagName == <<"d", "i", "v">>

\* C19: markup tags are stripped before punctuation is replaced, so the
\* name of a tag of the summary or of the description is never a word of
\* the normalized text.
C19_TagNameNeverToken == Normalized => TagName \notin Tokens(normalized_text)

\* C20: the output of normalize_text has no word of common_words and no key
\* of word_mapping, no leading, trailing or doubled space, and is empty
\* when the input is empty or whitespace-only.
C20_NormalizedForm ==
    Normalized =>
        /\ \A w \in Tokens(normalized_text) :
              w \notin CommonWords /\ w \notin MappingKeys
        /\ Len(normalized_text) > 0 =>
              /\ ~IsSpaceChar(normalized_text[1])
              /\ ~IsSpaceChar(normalized_text[Len(normalized_text)])
        /\ \A k \in 1..(Len(normalized_text) - 1) :
              ~(IsSpaceChar(normalized_text[k])
                /\ IsSpaceChar(normalized_text[k + 1]))
        /\ (IsEmptyText(issue_text) \/ IsBlank(issue_text))
              => normalized_text = <<>>

\* the text "navigator \t bug" (a key, a run of whitespace, a common word
\* taken from the description) was normalized to "navigation"
C20_Witness ==
    /\ norm_pc = "normalized"
    /\ summary = <<"n", "a", "v", "i", "g", "a", "t", "o", "r", " ", "\t">>
    /\ description = <<"b", "u", "g", " ", "<", "d", "i", "v", ">">>
    /\ issue_text = summary \o <<" ", "b", "u", "g">>
    /\ normalized_text = <<"n", "a", "v", "i", "g", "a", "t", "i", "o", "n">>

(***************************************************************************)
(* SpecVector: _text_to_vector, lines 55-94, called twice on one text.     *)
(***************************************************************************)

\* re.sub(r'[^\w\s]', '', text): the other characters are removed
KeepsChar(c) == IsWordChar(c) \/ IsSpaceChar(c)

RemoveSpecial(text) == SelectSeq(text, KeepsChar)

\* line 68: len(text) / 1000.0
LengthScale == 1000

\* line 69: len(words) / 100.0
WordCountScale == 100

\* lines 73 and 77: words[:50] and range(50)
FrequencyFeatures == 50

\* line 85: hash_val % 1000, then / 1000.0
HashModulus == 1000

\* line 88
target_size == 100

\* word_freq[word], counted over words[:50], lines 72-74
WordFreq(words, word) ==
    Cardinality({k \in 1..Len(words) :
                    k <= FrequencyFeatures /\ words[k] = word})

\* the byte of a character of the modelled texts
CharCode(c) ==
    CASE c = " " -> 32
      [] c = "-" -> 45
      [] c = "a" -> 97
      [] c = "b" -> 98
      [] OTHER -> 63

\* int(hashlib.md5(text.encode()).hexdigest()[:8], 16), line 84: a fixed
\* function of the bytes of the text. MD5 itself is not computed; a
\* polynomial digest of the bytes stands for it.
RECURSIVE DigestFrom(_, _, _)
DigestFrom(text, k, acc) ==
    IF k > Len(text) THEN acc
    ELSE DigestFrom(text, k + 1, (acc * 31 + CharCode(text[k])) % 1048576)

Md5Prefix(text) == DigestFrom(text, 1, 7)

\* mutant: a short vector is returned as it is
PadOrTruncateNoPad(vector) ==
    IF Len(vector) < target_size THEN vector
    ELSE SubSeq(vector, 1, target_size)

\* lines 88-92
PadOrTruncate(vector) ==
    IF Len(vector) < target_size
    THEN vector \o [k \in 1..(target_size - Len(vector)) |-> Zero]
    ELSE SubSeq(vector, 1, target_size)

\* lines 61-94; a component is the fraction [num, den]
TextToVector(text) ==
    LET cleaned == RemoveSpecial(Lower(text))
        words == Split(cleaned)
        lengths == <<[num |-> Len(cleaned), den |-> LengthScale],
                     [num |-> Len(words), den |-> WordCountScale]>>
        frequencies ==
            [k \in 1..FrequencyFeatures |->
                IF k - 1 < Len(words)
                THEN [num |-> WordFreq(words, words[k]), den |-> Len(words)]
                ELSE Zero]
        digest == <<[num |-> Md5Prefix(cleaned) % HashModulus,
                     den |-> HashModulus]>>
    IN PadOrTruncate(lengths \o frequencies \o digest)

\* bound of the model: the length of the text given to _text_to_vector
MaxVectorTextLen == 3

\* a letter, a capital, the space and a punctuation mark
VectorAlphabet == {"a", "B", " ", "-"}

VectorInit ==
    /\ GroupingIdle
    /\ ScoreIdle
    /\ NormIdle
    /\ EmbedIdle
    /\ AgentIdle
    /\ vec_text \in StringsOver(VectorAlphabet, MaxVectorTextLen)
    /\ vector1 = <<>>
    /\ vector2 = <<>>
    /\ vec_pc = "text"

\* the first call
TextToVectorOnce ==
    /\ vec_pc = "text"
    /\ vector1' = TextToVector(vec_text)
    /\ vec_pc' = "once"
    /\ UNCHANGED <<vec_text, vector2, groupingVars, scoreVars, normVars,
                   embedVars, agentVars>>

\* the second call, on the same text
TextToVectorTwice ==
    /\ vec_pc = "once"
    /\ vector2' = TextToVector(vec_text)
    /\ vec_pc' = "twice"
    /\ UNCHANGED <<vec_text, vector1, groupingVars, scoreVars, normVars,
                   embedVars, agentVars>>

VectorNext ==
    \/ TextToVectorOnce
    \/ TextToVectorTwice

SpecVector == VectorInit /\ [][VectorNext]_vars

PrepareTextForEmbedding(issue) ==
    Strip(PrepareText(issue.summary, issue.description))

\* line 225: the size of a provider vector, "ada-002 has 1536 dimensions"
EmbeddingDim == 1536

\* self.similarity_threshold, in hundredths: the default of
\* Config.SIMILARITY_THRESHOLD
similarity_threshold == 80

\* the values cosine_similarity may give a pair, in hundredths: below the
\* threshold, equal to it, above it
CosineValues == {10, 80, 90}

\* bound of the model: the number of issues given to calculate_similarities
MaxEmbedIssues == 3

\* the issues: no text, a blank summary, a one-word summary, a summary with
\* a description that holds a tag
EmbedIssues ==
    {[summary |-> <<>>, description |-> <<>>],
     [summary |-> <<" ">>, description |-> <<>>],
     [summary |-> <<"a">>, description |-> <<>>],
     [summary |-> <<"B", "-", "a">>, description |-> <<"<", "a", ">", "a">>]}

\* the lists of at most m issues
IssueLists(m) == UNION {[1..k -> EmbedIssues] : k \in 0..m}

EmbedInit ==
    /\ GroupingIdle
    /\ ScoreIdle
    /\ NormIdle
    /\ VectorIdle
    /\ AgentIdle
    /\ embed_issues \in IssueLists(MaxEmbedIssues)
    /\ texts = <<>>
    /\ valid_indices = <<>>
    /\ embeddings = <<>>
    /\ cosine = <<>>
    /\ similar_pairs = <<>>
    /\ embed_pc = "start"

\* lines 208-212: the issues whose text is not empty, by input index
RECURSIVE ValidFrom(_, _, _)
ValidFrom(iss, k, acc) ==
    IF k > Len(iss) THEN acc
    ELSE IF IsEmptyText(PrepareTextForEmbedding(iss[k]))
         THEN ValidFrom(iss, k + 1, acc)
         ELSE ValidFrom(iss, k + 1, Append(acc, k - 1))

PrepareTexts ==
    /\ embed_pc = "start"
    /\ valid_indices' = ValidFrom(embed_issues, 1, <<>>)
    /\ texts' = [p \in 1..Len(valid_indices') |->
                    PrepareTextForEmbedding(embed_issues[valid_indices'[p] + 1])]
    /\ embed_pc' = "embed"
    /\ UNCHANGED <<embed_issues, embeddings, cosine, similar_pairs,
                   groupingVars, scoreVars, normVars, vectorVars, agentVars>>

\* mutant: a vector goes to the front, as if the latest call to complete
\* came first
PrependEmbedding(embs, entry) == <<entry>> \o embs

\* embeddings.append(...), lines 222 and 225
AppendEmbedding(embs, entry) == Append(embs, entry)

\* an entry of embeddings: the size of the vector, with the text it was
\* computed from, the call's position in texts and the way it was obtained
EmbeddingOf(size, source) ==
    [size |-> size,
     text |-> texts[Len(embeddings) + 1],
     call |-> Len(embeddings),
     source |-> source]

\* line 220, one iteration of the loop of line 218 is due
EmbeddingDue == embed_pc = "embed" /\ Len(embeddings) < Len(texts)

\* lines 45-49 and 221-222: the provider returns a vector
ProviderReturns ==
    /\ EmbeddingDue
    /\ embeddings' = AppendEmbedding(embeddings,
                                     EmbeddingOf(EmbeddingDim, "provider"))
    /\ UNCHANGED <<embed_issues, texts, valid_indices, cosine, similar_pairs,
                   embed_pc, groupingVars, scoreVars, normVars, vectorVars,
                   agentVars>>

\* lines 223-225: the provider returns an empty vector
ProviderReturnsEmpty ==
    /\ EmbeddingDue
    /\ embeddings' = AppendEmbedding(embeddings,
                                     EmbeddingOf(EmbeddingDim, "zero"))
    /\ UNCHANGED <<embed_issues, texts, valid_indices, cosine, similar_pairs,
                   embed_pc, groupingVars, scoreVars, normVars, vectorVars,
                   agentVars>>

\* lines 50-53: the call raises and _text_to_vector gives the vector
ProviderFails ==
    /\ EmbeddingDue
    /\ embeddings' =
          AppendEmbedding(embeddings,
                          EmbeddingOf(Len(TextToVector(texts[Len(embeddings) + 1])),
                                      "fallback"))
    /\ UNCHANGED <<embed_issues, texts, valid_indices, cosine, similar_pairs,
                   embed_pc, groupingVars, scoreVars, normVars, vectorVars,
                   agentVars>>

\* np.array(embeddings) is a matrix: one row at least, all rows of one size
IsMatrix(embs) ==
    /\ Len(embs) > 0
    /\ \A p, q \in 1..Len(embs) : embs[p].size = embs[q].size

\* lines 227-232, on a list that is no matrix: np.array or cosine_similarity
\* raises ValueError, which nothing in calculate_similarities catches
CosineRaises ==
    /\ embed_pc = "embed"
    /\ Len(embeddings) = Len(texts)
    /\ ~IsMatrix(embeddings)
    /\ embed_pc' = "raised"
    /\ UNCHANGED <<embed_issues, texts, valid_indices, embeddings, cosine,
                   similar_pairs, groupingVars, scoreVars, normVars,
                   vectorVars, agentVars>>

\* lines 227-232: the values depend on the provider's vectors
CosineSimilarity ==
    /\ embed_pc = "embed"
    /\ Len(embeddings) = Len(texts)
    /\ IsMatrix(embeddings)
    /\ cosine' \in [Pairs(Len(embeddings)) -> CosineValues]
    /\ embed_pc' = "pairs"
    /\ UNCHANGED <<embed_issues, texts, valid_indices, embeddings,
                   similar_pairs, groupingVars, scoreVars, normVars,
                   vectorVars, agentVars>>

\* lines 236-242: the pairs i < j at or above the threshold, under their
\* input indices, in the order of the two loops
RECURSIVE PairsAbove(_, _, _, _)
PairsAbove(m, a, b, acc) ==
    IF a >= m THEN acc
    ELSE IF b >= m THEN PairsAbove(m, a + 1, a + 2, acc)
    ELSE IF cosine[<<a, b>>] >= similarity_threshold
         THEN PairsAbove(m, a, b + 1,
                         Append(acc, <<valid_indices[a + 1],
                                       valid_indices[b + 1],
                                       cosine[<<a, b>>]>>))
         ELSE PairsAbove(m, a, b + 1, acc)

\* mutant: an entry goes before the entries of equal score
InsertBeforeEqual(sorted, entry) ==
    LET k == Cardinality({q \in 1..Len(sorted) : sorted[q][3] > entry[3]})
    IN SubSeq(sorted, 1, k) \o <<entry>> \o SubSeq(sorted, k + 1, Len(sorted))

\* the place list.sort gives an entry among those before it: after every
\* entry of a higher or an equal score (the sort is stable, also reversed)
InsertSorted(sorted, entry) ==
    LET k == Cardinality({q \in 1..Len(sorted) : sorted[q][3] >= entry[3]})
    IN SubSeq(sorted, 1, k) \o <<entry>> \o SubSeq(sorted, k + 1, Len(sorted))

\* similar_pairs.sort(key=lambda x: x[2], reverse=True), line 245
RECURSIVE SortDescending(_, _, _)
SortDescending(list, k, sorted) ==
    IF k > Len(list) THEN sorted
    ELSE SortDescending(list, k + 1, InsertSorted(sorted, list[k]))

\* lines 235-247
FindSimilarPairs ==
    /\ embed_pc = "pairs"
    /\ similar_pairs' =
          SortDescending(PairsAbove(Len(embeddings), 0, 1, <<>>), 1, <<>>)
    /\ embed_pc' = "returned"
    /\ UNCHANGED <<embed_issues, texts, valid_indices, embeddings, cosine,
                   groupingVars, scoreVars, normVars, vectorVars, agentVars>>

EmbedNext ==
    \/ PrepareTexts
    \/ ProviderReturns
    \/ ProviderReturnsEmpty
    \/ ProviderFails
    \/ CosineRaises
    \/ CosineSimilarity
    \/ FindSimilarPairs

SpecEmbed == EmbedInit /\ [][EmbedNext]_vars

\* ==== properties of calculate_similarities ==================================

\* C22: whichever embedding calls fail, each failed issue gets the fallback
\* vector, the batch goes on, and calculate_similarities returns its pair
\* list without raising.
C22_ProviderFailureNeverFatal ==
    /\ \A p \in 1..Len(embeddings) :
          embeddings[p].source = "fallback" => embeddings[p].size = target_size
    /\ (\E p \in 1..Len(embeddings) : embeddings[p].source = "fallback")
          => embed_pc # "raised"

\* positions a < b of the matrix, as entry of the listing
EntryOf(a, b) == <<valid_indices[a + 1], valid_indices[b + 1], cosine[<<a, b>>]>>

\* C23: the list calculate_similarities returns holds exactly the pairs
\* whose cosine similarity is at or above similarity_threshold, each
\* unordered pair once, by descending score, pairs of equal score in input
\* order.
C23_FlatListing ==
    embed_pc = "returned" =>
        /\ \A k \in 1..Len(similar_pairs) :
              \E p \in Pairs(Len(embeddings)) :
                  /\ similar_pairs[k] = EntryOf(p[1], p[2])
                  /\ similar_pairs[k][3] >= 80
                  /\ similar_pairs[k][1] < similar_pairs[k][2]
        /\ \A p \in Pairs(Len(embeddings)) :
              cosine[p] >= 80 =>
                  Cardinality({k \in 1..Len(similar_pairs) :
                                  /\ similar_pairs[k][1] = valid_indices[p[1] + 1]
                                  /\ similar_pairs[k][2] = valid_indices[p[2] + 1]}) = 1
        /\ \A k, l \in 1..Len(similar_pairs) :
              k < l =>
                  \/ similar_pairs[k][3] > similar_pairs[l][3]
                  \/ /\ similar_pairs[k][3] = similar_pairs[l][3]
                     /\ \/ similar_pairs[k][1] < similar_pairs[l][1]
                        \/ /\ similar_pairs[k][1] = similar_pairs[l][1]
                           /\ similar_pairs[k][2] < similar_pairs[l][2]

\* three issues: the pair (1, 2) scores highest and comes first, the pairs
\* (0, 1) and (0, 2) tie and keep their input order
C23_Witness ==
    /\ embed_pc = "returned"
    /\ similar_pairs = <<<<1, 2, 90>>, <<0, 1, 80>>, <<0, 2, 80>>>>

MaxFetched == 4

\* the steps, in the order of lines 268, 273, 279, 285
Steps == <<"authenticate", "fetch", "analyze", "report">>

AgentInit ==
    /\ GroupingIdle
    /\ ScoreIdle
    /\ NormIdle
    /\ VectorIdle
    /\ EmbedIdle
    /\ jira_client = FALSE
    /\ tokens = "none"
    /\ fetched_issues = -1
    /\ analysis_results = NoAnalysis
    /\ report = FALSE
    /\ steps_run = <<>>
    /\ run_result = NoResult
    /\ agent_pc = "authenticate"

\* return {"error": message}
ErrorResult(message) == [kind |-> "error", message |-> message]

\* lines 289-293
SuccessResult(analysis) ==
    [kind |-> "success", message |-> "", analysis_results |-> analysis]

\* mutant: the exception of a step leaves run_analysis
FailPropagates(message) ==
    /\ run_result' = NoResult
    /\ agent_pc' = "raised"

\* a step failed: run_analysis returns the error entry
Fail(message) ==
    /\ run_result' = ErrorResult(message)
    /\ agent_pc' = "returned"

\* authenticate_jira, lines 33-51: valid saved tokens, refreshed tokens or
\* tokens of the interactive flow; the client is created; line 268 goes on
AuthenticateJira ==
    /\ agent_pc = "authenticate"
    /\ tokens' \in {"saved", "refreshed", "interactive"}
    /\ jira_client' = TRUE
    /\ steps_run' = Append(steps_run, "authenticate")
    /\ agent_pc' = "fetch"
    /\ UNCHANGED <<fetched_issues, analysis_results, report, run_result,
                   groupingVars, scoreVars, normVars, vectorVars, embedVars>>

\* lines 53-55 and 268-269: the interactive flow raised, or the tokens hold
\* no 'access_token'; authenticate_jira returns False
AuthenticateFails ==
    /\ agent_pc = "authenticate"
    /\ tokens' \in {"none", "refreshed", "interactive"}
    /\ steps_run' = Append(steps_run, "authenticate")
    /\ Fail("JIRA authentication failed")
    /\ UNCHANGED <<jira_client, fetched_issues, analysis_results, report,
                   groupingVars, scoreVars, normVars, vectorVars, embedVars>>

\* lines 57-69 and 273
FetchIssues ==
    /\ agent_pc = "fetch"
    /\ jira_client
    /\ fetched_issues' \in 0..MaxFetched
    /\ steps_run' = Append(steps_run, "fetch")
    /\ agent_pc' = "analyze"
    /\ UNCHANGED <<jira_client, tokens, analysis_results, report, run_result,
                   groupingVars, scoreVars, normVars, vectorVars, embedVars>>

\* lines 274-275: get_issues raised
FetchFails ==
    /\ agent_pc = "fetch"
    /\ steps_run' = Append(steps_run, "fetch")
    /\ Fail("Failed to fetch issues")
    /\ UNCHANGED <<jira_client, tokens, fetched_issues, analysis_results,
                   report, groupingVars, scoreVars, normVars, vectorVars,
                   embedVars>>

\* _generate_duplicate_insights, lines 88-125: a failure of the chat call is
\* caught there and is no failure of the step
InsightsFor(groups) ==
    IF groups = 0 THEN {"No duplicate issues found."}
    ELSE {"generated", "AI insights generation failed."}

\* analyze_duplicates, lines 71-86, and line 279; a group has two members
\* at least
AnalyzeDuplicates ==
    /\ agent_pc = "analyze"
    /\ \E groups \in 0..(fetched_issues \div 2) :
          \E insights \in InsightsFor(groups) :
              analysis_results' =
                  [total_issues_analyzed |-> fetched_issues,
                   duplicate_groups_found |-> groups,
                   insights |-> insights]
    /\ steps_run' = Append(steps_run, "analyze")
    /\ agent_pc' = "report"
    /\ UNCHANGED <<jira_client, tokens, fetched_issues, report, run_result,
                   groupingVars, scoreVars, normVars, vectorVars, embedVars>>

\* lines 280-281
AnalyzeFails ==
    /\ agent_pc = "analyze"
    /\ steps_run' = Append(steps_run, "analyze")
    /\ Fail("Failed to analyze duplicates")
    /\ UNCHANGED <<jira_client, tokens, fetched_issues, analysis_results,
                   report, groupingVars, scoreVars, normVars, vectorVars,
                   embedVars>>

\* lines 285 and 289-293
GenerateReport ==
    /\ agent_pc = "report"
    /\ report' = TRUE
    /\ steps_run' = Append(steps_run, "report")
    /\ run_result' = SuccessResult(analysis_results)
    /\ agent_pc' = "returned"
    /\ UNCHANGED <<jira_client, tokens, fetched_issues, analysis_results,
                   groupingVars, scoreVars, normVars, vectorVars, embedVars>>

\* lines 286-287
ReportFails ==
    /\ agent_pc = "report"
    /\ steps_run' = Append(steps_run, "report")
    /\ Fail("Failed to generate report")
    /\ UNCHANGED <<jira_client, tokens, fetched_issues, analysis_results,
                   report, groupingVars, scoreVars, normVars, vectorVars,
                   embedVars>>

AgentNext ==
    \/ AuthenticateJira
    \/ AuthenticateFails
    \/ FetchIssues
    \/ FetchFails
    \/ AnalyzeDuplicates
    \/ AnalyzeFails
    \/ GenerateReport
    \/ ReportFails

SpecAgent == AgentInit /\ [][AgentNext]_vars

\* the error entry of the step at position k of Steps
ErrorOf(k) ==
    CASE k = 1 -> "JIRA authentication failed"
      [] k = 2 -> "Failed to fetch issues"
      [] k = 3 -> "Failed to analyze duplicates"
      [] k = 4 -> "Failed to generate report"

\* C30: run_analysis runs authenticate, fetch, analyze, report in this
\* order; the first step that fails ends the run with a result holding an
\* 'error' entry and no later step runs; a success result is returned only
\* when all four steps succeeded; run_analysis never raises for a failed
\* step.
C30_StepsInOrder ==
    /\ Len(steps_run) <= Len(Steps)
    /\ \A k \in 1..Len(steps_run) : steps_run[k] = Steps[k]
    /\ agent_pc # "raised"
    /\ agent_pc = "returned" =>
          \/ /\ run_result.kind = "error"
             /\ Len(steps_run) >= 1
             /\ run_result.message = ErrorOf(Len(steps_run))
             /\ ~report
          \/ /\ run_result.kind = "success"
             /\ steps_run = Steps
             /\ jira_client
             /\ fetched_issues >= 0
             /\ analysis_results # NoAnalysis
             /\ run_result.analysis_results = analysis_results
             /\ report
    /\ agent_pc # "returned" => run_result = NoResult

\* authentication and fetch succeeded, the analysis raised: the run ended
\* with the error entry of the third step and no report was generated
C30_Witness ==
    /\ agent_pc = "returned"
    /\ steps_run = <<"authenticate", "fetch", "analyze">>
    /\ fetched_issues = 2
    /\ run_result = ErrorResult("Failed to analyze duplicates")
    /\ ~report

====
